---- MODULE Spec2Model ----
(***************************************************************************)
(* Model of drivers/platform/chrome/cros_ec_sysfs.c: the sysfs attributes  *)
(* of the ChromeOS EC (reboot, version, flashinfo, kb_wake_angle,          *)
(* usbpdmuxinfo, ap_mode_entry) and their visibility callback.             *)
(*                                                                         *)
(* Text is a sequence of one-character strings; a C string ends with NUL.  *)
(* Every handler is one action: it takes the text written (stores), the    *)
(* outcome of kmalloc and the answers the EC gives to the exchanges, and   *)
(* leaves the messages it handed to the transport in sent, the text it     *)
(* emitted in out and its return value in retval.                          *)
(***************************************************************************)
EXTENDS Integers, Sequences, FiniteSets, TLC

VARIABLES
    cmd_offset,         \* ec->cmd_offset
    has_kb_wake_angle,  \* ec->has_kb_wake_angle
    ec_name,            \* dev_get_platdata(ec->dev)->ec_name
    op,                 \* the handler that ran last
    buf,                \* the text handed to a store handler, NUL-terminated
    alloc_ok,           \* whether kmalloc returned a buffer
    dev,                \* the EC's answers to the exchanges of this call
    sent,               \* the messages handed to the transport by this call
    out,                \* the lines emitted into the sysfs buffer
    retval,             \* the handler's return value
    attr                \* the attribute cros_ec_ctrl_visible was asked about

vars == <<cmd_offset, has_kb_wake_angle, ec_name, op, buf,
          alloc_ok, dev, sent, out, retval, attr>>

handle == <<cmd_offset, has_kb_wake_angle, ec_name>>

(***************************************************************************)
(* Bounds of the model.                                                    *)
(***************************************************************************)
MaxTokens == 2      \* words in a text written to reboot
FieldCap == 2       \* sizeof of a fixed text field of a response
MaxPorts == 3       \* largest num_ports the EC reports

(***************************************************************************)
(* Program constants.                                                      *)
(***************************************************************************)
ENOMEM == 12
EINVAL == 22
EIO == 5

EC_CMD_REBOOT_EC == 210
EC_CMD_GET_VERSION == 2
EC_CMD_GET_BUILD_INFO == 4
EC_CMD_GET_CHIP_INFO == 5
EC_CMD_GET_BOARD_VERSION == 6
EC_CMD_FLASH_INFO == 16
EC_CMD_MOTION_SENSE_CMD == 43
EC_CMD_USB_PD_PORTS == 258
EC_CMD_USB_PD_MUX_INFO == 282

EC_REBOOT_CANCEL == 0
EC_REBOOT_JUMP_RO == 1
EC_REBOOT_JUMP_RW == 2
EC_REBOOT_COLD == 4
EC_REBOOT_DISABLE_JUMP == 5
EC_REBOOT_HIBERNATE == 6
EC_REBOOT_COLD_AP_OFF == 8
EC_REBOOT_FLAG_ON_AP_SHUTDOWN == 2

CROS_EC_DEV_NAME == "cros_ec"

NUL == ""

\* Offsets a device handle may carry: the primary EC and a passthru EC.
CmdOffsets == {0, 16384}
EcNames == {CROS_EC_DEV_NAME, "cros_pd"}

(***************************************************************************)
(* Characters.                                                             *)
(***************************************************************************)
Upper == <<"A","B","C","D","E","F","G","H","I","J","K","L","M",
           "N","O","P","Q","R","S","T","U","V","W","X","Y","Z">>
Lower == <<"a","b","c","d","e","f","g","h","i","j","k","l","m",
           "n","o","p","q","r","s","t","u","v","w","x","y","z">>

LowerOf == [c \in {Upper[i] : i \in 1..26} |->
               Lower[CHOOSE i \in 1..26 : Upper[i] = c]]

tolower(c) == IF c \in DOMAIN LowerOf THEN LowerOf[c] ELSE c

\* The white space of the C locale; the vertical tab has no TLA+ escape and
\* is not among the characters written.
isspace(c) == c \in {" ", "\t", "\n", "\f", "\r"}

(***************************************************************************)
(* reboot_store                                                            *)
(***************************************************************************)
words == <<
    [str |-> <<"c","a","n","c","e","l">>, cmd |-> EC_REBOOT_CANCEL, flags |-> 0],
    [str |-> <<"r","o">>, cmd |-> EC_REBOOT_JUMP_RO, flags |-> 0],
    [str |-> <<"r","w">>, cmd |-> EC_REBOOT_JUMP_RW, flags |-> 0],
    [str |-> <<"c","o","l","d","-","a","p","-","o","f","f">>,
     cmd |-> EC_REBOOT_COLD_AP_OFF, flags |-> 0],
    [str |-> <<"c","o","l","d">>, cmd |-> EC_REBOOT_COLD, flags |-> 0],
    [str |-> <<"d","i","s","a","b","l","e","-","j","u","m","p">>,
     cmd |-> EC_REBOOT_DISABLE_JUMP, flags |-> 0],
    [str |-> <<"h","i","b","e","r","n","a","t","e">>,
     cmd |-> EC_REBOOT_HIBERNATE, flags |-> 0],
    [str |-> <<"a","t","-","s","h","u","t","d","o","w","n">>,
     cmd |-> 255, flags |-> EC_REBOOT_FLAG_ON_AP_SHUTDOWN] >>

\* !strncasecmp(words[i].str, buf+offset, strlen(words[i].str)): the first
\* strlen(words[i].str) characters at buf+offset equal the keyword, case
\* ignored.  The comparison stops at the NUL of buf, which differs from
\* every keyword character.
WordMatches(i, b, offset) ==
    \A k \in 1..Len(words[i].str) :
        /\ offset + k - 1 <= Len(b)
        /\ tolower(b[offset + k - 1]) = tolower(words[i].str[k])

\* while (buf[offset] && isspace(buf[offset])) offset++;
RECURSIVE SkipSpace(_, _)
SkipSpace(b, offset) ==
    IF b[offset] # NUL /\ isspace(b[offset])
    THEN SkipSpace(b, offset + 1)
    ELSE offset

\* while (buf[offset] && !isspace(buf[offset])) offset++;
RECURSIVE SkipWord(_, _)
SkipWord(b, offset) ==
    IF b[offset] # NUL /\ ~isspace(b[offset])
    THEN SkipWord(b, offset + 1)
    ELSE offset

\* ApplyWord with got_cmd ^= 1 for got_cmd = 1: a second command word
\* clears what the first one set.
ApplyWord_toggle(p, b, offset) ==
    LET hits == {i \in 1..Len(words) : WordMatches(i, b, offset)}
    IN  IF hits = {} THEN p
        ELSE LET i == CHOOSE h \in hits : \A g \in hits : h <= g
             IN  IF words[i].flags # 0
                 THEN [p EXCEPT !.flags =
                          IF (p.flags \div words[i].flags) % 2 = 1
                          THEN p.flags ELSE p.flags + words[i].flags]
                 ELSE [p EXCEPT !.cmd = words[i].cmd,
                                !.got_cmd = 1 - p.got_cmd]

\* The for loop over words[]: the first entry that matches at offset sets
\* the flag bit or the command, then break.  (flags | bit is flags + bit
\* when the bit is clear.)
ApplyWord(p, b, offset) ==
    LET hits == {i \in 1..Len(words) : WordMatches(i, b, offset)}
    IN  IF hits = {} THEN p
        ELSE LET i == CHOOSE h \in hits : \A g \in hits : h <= g
             IN  IF words[i].flags # 0
                 THEN [p EXCEPT !.flags =
                          IF (p.flags \div words[i].flags) % 2 = 1
                          THEN p.flags ELSE p.flags + words[i].flags]
                 ELSE [p EXCEPT !.cmd = words[i].cmd, !.got_cmd = 1]

\* The while (1) loop; offset is 1-based here.
RECURSIVE ScanWords(_, _, _)
ScanWords(b, offset, p) ==
    LET o == SkipSpace(b, offset)
    IN  IF b[o] = NUL THEN p
        ELSE ScanWords(b, SkipWord(b, o), ApplyWord(p, b, o))

\* param->flags = 0 and got_cmd = 0 before the loop; param->cmd is whatever
\* kmalloc left there and is read only once the loop has set it.
ParseReboot(b) == ScanWords(b, 1, [cmd |-> 0, flags |-> 0, got_cmd |-> 0])

\* size_t count of a store: the bytes written, the NUL not counted.
Count(b) == Len(b) - 1

Msg(version, command, outsize, insize, param) ==
    [version |-> version, command |-> command, outsize |-> outsize,
     insize |-> insize, param |-> param]

RebootMsg(p) ==
    Msg(0, EC_CMD_REBOOT_EC + cmd_offset, "sizeof(*param)", "0",
        [cmd |-> p.cmd, flags |-> p.flags])

\* The answer of the EC to the reboot command: reboot_store sets insize 0
\* and reads nothing back.
RebootAnswers == { [ret |-> -EIO, result |-> 0, data |-> <<>>],
                   [ret |-> 0, result |-> 0, data |-> <<>>] }

\* The body of reboot_store: kmalloc, the scan, then one exchange if a
\* command word was found.
RebootStore(b, ok, a) ==
    LET p == ParseReboot(b)
    IN  IF ~ok
        THEN [sent |-> <<>>, dev |-> <<>>, retval |-> -ENOMEM]
        ELSE IF p.got_cmd = 0
        THEN [sent |-> <<>>, dev |-> <<>>, retval |-> -EINVAL]
        ELSE [sent |-> <<RebootMsg(p)>>, dev |-> <<a>>,
              retval |-> IF a.ret < 0 THEN a.ret ELSE Count(b)]

(***************************************************************************)
(* Texts written to reboot: up to MaxTokens words from a vocabulary of the *)
(* keywords in several letter cases and of other words, with the white     *)
(* space between and around them varied.                                   *)
(***************************************************************************)
Vocabulary == {
    <<"c","a","n","c","e","l">>, <<"r","o">>, <<"r","w">>,
    <<"c","o","l","d","-","a","p","-","o","f","f">>, <<"c","o","l","d">>,
    <<"d","i","s","a","b","l","e","-","j","u","m","p">>,
    <<"h","i","b","e","r","n","a","t","e">>,
    <<"a","t","-","s","h","u","t","d","o","w","n">>,
    <<"R","O">>, <<"A","T","-","S","H","U","T","D","O","W","N">>,
    <<"r","w","x">>, <<"c","o","l","d","e","s","t">>, <<"n","o","w">> }

Separators == { <<" ">>, <<"\n", "\t">> }
Paddings == { [lead |-> <<>>, trail |-> <<>>],
              [lead |-> <<" ">>, trail |-> <<"\n">>] }

TokenLists == UNION { [1..n -> Vocabulary] : n \in 0..MaxTokens }

RECURSIVE Join(_, _)
Join(toks, sep) ==
    IF Len(toks) = 0 THEN <<>>
    ELSE IF Len(toks) = 1 THEN toks[1]
    ELSE toks[1] \o sep \o Join(Tail(toks), sep)

RebootTexts ==
    { pad.lead \o Join(toks, sep) \o pad.trail \o <<NUL>> :
        toks \in TokenLists, sep \in Separators, pad \in Paddings }

(***************************************************************************)
(* Emitted text.  A line is the format handed to sysfs_emit_at with its    *)
(* arguments: str the bytes a %s prints from a response, num the integers  *)
(* the %d print, name the constant string a %s prints.  Every conversion   *)
(* is two characters of the format.  The texts of this driver stay far     *)
(* below PAGE_SIZE, so sysfs_emit_at never truncates.                      *)
(***************************************************************************)
Line(fmt, nconv, str, num, name) ==
    [fmt |-> fmt, nconv |-> nconv, str |-> str, num |-> num, name |-> name]

RECURSIVE DecLen(_)
DecLen(n) ==
    IF n < 0 THEN 1 + DecLen(-n)
    ELSE IF n < 10 THEN 1
    ELSE 1 + DecLen(n \div 10)

RECURSIVE SumDecLen(_)
SumDecLen(num) ==
    IF Len(num) = 0 THEN 0 ELSE DecLen(Head(num)) + SumDecLen(Tail(num))

\* The return value of one sysfs_emit_at: the characters written.
EmitLen(l) ==
    Len(l.fmt) - 2 * l.nconv + Len(l.str) + SumDecLen(l.num) + Len(l.name)

\* count after count += sysfs_emit_at(...) for every line.
RECURSIVE TextLen(_)
TextLen(lines) ==
    IF Len(lines) = 0 THEN 0 ELSE EmitLen(Head(lines)) + TextLen(Tail(lines))

(***************************************************************************)
(* Response bytes.  Byte 0 is the terminator.  %s prints the bytes from    *)
(* its argument up to the first terminator in memory, whatever field they  *)
(* belong to; past the end of the response it would print what follows in  *)
(* the heap, and the model stops there.                                    *)
(***************************************************************************)
RECURSIVE CStrAt(_, _)
CStrAt(mem, off) ==
    IF off > Len(mem) \/ mem[off] = 0 THEN <<>>
    ELSE <<mem[off]>> \o CStrAt(mem, off + 1)

\* Terminate with the store of the terminator left out.
Terminate_none(mem, off, cap) == mem

\* field[sizeof(field) - 1] = '\0' for the field of cap bytes at off.
Terminate(mem, off, cap) == [mem EXCEPT ![off + cap - 1] = 0]

\* EC_HOST_PARAM_SIZE: the response buffer holds the largest response.
HostParamSize == 3 * FieldCap

\* Contents the EC may leave in a text field of n bytes: empty, a one
\* character string, and n characters with no terminator.
Patterns(n) ==
    { [i \in 1..n |-> 0], [i \in 1..n |-> IF i = 1 THEN 1 ELSE 0],
      [i \in 1..n |-> 1] }

Answer(ret, result, data) == [ret |-> ret, result |-> result, data |-> data]

\* A failed exchange: a negative return value and the msg->result left.
FailAnswers == { Answer(-EIO, 0, <<>>), Answer(-EINVAL, 3, <<>>) }

VerAnswers ==
    FailAnswers \cup
    { Answer(0, 0, d) :
        d \in [version_string_ro : Patterns(FieldCap),
               version_string_rw : Patterns(FieldCap),
               current_image : 0..3] }
BuildAnswers ==
    FailAnswers \cup { Answer(0, 0, d) : d \in Patterns(HostParamSize) }
ChipAnswers ==
    FailAnswers \cup
    { Answer(0, 0, d) :
        d \in [vendor : Patterns(FieldCap) \ {[i \in 1..FieldCap |-> 0]},
               name : Patterns(FieldCap) \ {[i \in 1..FieldCap |-> 0]},
               revision : Patterns(FieldCap)] }
BoardAnswers ==
    FailAnswers \cup { Answer(0, 0, d) : d \in {3, 12} }

(***************************************************************************)
(* version_show                                                            *)
(***************************************************************************)
image_names == <<"unknown", "RO", "RW">>

ImageName(current_image) ==
    IF current_image < Len(image_names)
    THEN image_names[current_image + 1] ELSE "?"

VerLines(a) ==
    LET mem == a.data.version_string_ro \o a.data.version_string_rw
        m1 == Terminate(mem, 1, FieldCap)
        m2 == Terminate(m1, FieldCap + 1, FieldCap)
    IN  << Line("RO version:    %s\n", 1, CStrAt(m2, 1), <<>>, ""),
           Line("RW version:    %s\n", 1, CStrAt(m2, FieldCap + 1), <<>>, ""),
           Line("Firmware copy: %s\n", 1, <<>>, <<>>,
                ImageName(a.data.current_image)) >>

\* BuildLines with msg->result left out of the diagnostic.
BuildLines_noResult(a) ==
    IF a.ret < 0
    THEN << Line("Build info:    XFER / EC ERROR %d / %d\n", 2, <<>>,
                 <<a.ret>>, "") >>
    ELSE << Line("Build info:    %s\n", 1,
                 CStrAt(Terminate(a.data, 1, HostParamSize), 1), <<>>, "") >>

BuildLines(a) ==
    IF a.ret < 0
    THEN << Line("Build info:    XFER / EC ERROR %d / %d\n", 2, <<>>,
                 <<a.ret, a.result>>, "") >>
    ELSE << Line("Build info:    %s\n", 1,
                 CStrAt(Terminate(a.data, 1, HostParamSize), 1), <<>>, "") >>

ChipLines(a) ==
    IF a.ret < 0
    THEN << Line("Chip info:     XFER / EC ERROR %d / %d\n", 2, <<>>,
                 <<a.ret, a.result>>, "") >>
    ELSE LET mem == a.data.vendor \o a.data.name \o a.data.revision
             m1 == Terminate(mem, 1, FieldCap)
             m2 == Terminate(m1, FieldCap + 1, FieldCap)
             m3 == Terminate(m2, 2 * FieldCap + 1, FieldCap)
         IN  << Line("Chip vendor:   %s\n", 1, CStrAt(m3, 1), <<>>, ""),
                Line("Chip name:     %s\n", 1, CStrAt(m3, FieldCap + 1),
                     <<>>, ""),
                Line("Chip revision: %s\n", 1, CStrAt(m3, 2 * FieldCap + 1),
                     <<>>, "") >>

BoardLines(a) ==
    IF a.ret < 0
    THEN << Line("Board version: XFER / EC ERROR %d / %d\n", 2, <<>>,
                 <<a.ret, a.result>>, "") >>
    ELSE << Line("Board version: %d\n", 1, <<>>, <<a.data>>, "") >>

VersionMsgs ==
    << Msg(0, EC_CMD_GET_VERSION + cmd_offset, "0", "sizeof(*r_ver)", <<>>),
       Msg(0, EC_CMD_GET_BUILD_INFO + cmd_offset, "0", "EC_HOST_PARAM_SIZE",
           <<>>),
       Msg(0, EC_CMD_GET_CHIP_INFO + cmd_offset, "0", "sizeof(*r_chip)",
           <<>>),
       Msg(0, EC_CMD_GET_BOARD_VERSION + cmd_offset, "0", "sizeof(*r_board)",
           <<>>) >>

\* VersionShow with the goto exit of get-version repeated after chip
\* info: a failed chip-info query ends the read.
VersionShow_abortOnChip(ok, a) ==
    IF ~ok
    THEN [sent |-> <<>>, dev |-> <<>>, out |-> <<>>, retval |-> -ENOMEM]
    ELSE IF a[1].ret < 0
    THEN [sent |-> SubSeq(VersionMsgs, 1, 1), dev |-> SubSeq(a, 1, 1),
          out |-> <<>>, retval |-> a[1].ret]
    ELSE IF a[3].ret < 0
    THEN [sent |-> SubSeq(VersionMsgs, 1, 3), dev |-> SubSeq(a, 1, 3),
          out |-> VerLines(a[1]) \o BuildLines(a[2]),
          retval |-> a[3].ret]
    ELSE LET lines == VerLines(a[1]) \o BuildLines(a[2]) \o ChipLines(a[3])
                        \o BoardLines(a[4])
         IN  [sent |-> VersionMsgs, dev |-> a, out |-> lines,
              retval |-> TextLen(lines)]

\* The body of version_show for the answers a[1..4] of the EC: what it
\* sends, emits and returns.  Only the answers to exchanges it makes are
\* consumed.
VersionShow(ok, a) ==
    IF ~ok
    THEN [sent |-> <<>>, dev |-> <<>>, out |-> <<>>, retval |-> -ENOMEM]
    ELSE IF a[1].ret < 0
    THEN [sent |-> SubSeq(VersionMsgs, 1, 1), dev |-> SubSeq(a, 1, 1),
          out |-> <<>>, retval |-> a[1].ret]
    ELSE LET lines == VerLines(a[1]) \o BuildLines(a[2]) \o ChipLines(a[3])
                        \o BoardLines(a[4])
         IN  [sent |-> VersionMsgs, dev |-> a, out |-> lines,
              retval |-> TextLen(lines)]

(***************************************************************************)
(* reboot_show                                                             *)
(***************************************************************************)
RebootShowLines ==
    << Line("ro|rw|cancel|cold|disable-jump|hibernate|cold-ap-off", 0,
            <<>>, <<>>, ""),
       Line(" [at-shutdown]\n", 0, <<>>, <<>>, "") >>

(***************************************************************************)
(* flashinfo_show                                                          *)
(***************************************************************************)
FlashAnswers ==
    FailAnswers \cup
    { Answer(0, 0, d) :
        d \in { [flash_size |-> 524288, write_block_size |-> 4,
                 erase_block_size |-> 4096, protect_block_size |-> 4096],
                [flash_size |-> 0, write_block_size |-> 0,
                 erase_block_size |-> 0, protect_block_size |-> 0] } }

FlashMsg ==
    Msg(0, EC_CMD_FLASH_INFO + cmd_offset, "0", "sizeof(*resp)", <<>>)

FlashLines(a) ==
    << Line("FlashSize %d\nWriteSize %d\nEraseSize %d\nProtectSize %d\n", 4,
            <<>>,
            <<a.data.flash_size, a.data.write_block_size,
              a.data.erase_block_size, a.data.protect_block_size>>, "") >>

FlashinfoShow(ok, a) ==
    IF ~ok
    THEN [sent |-> <<>>, dev |-> <<>>, out |-> <<>>, retval |-> -ENOMEM]
    ELSE IF a.ret < 0
    THEN [sent |-> <<FlashMsg>>, dev |-> <<a>>, out |-> <<>>,
          retval |-> a.ret]
    ELSE [sent |-> <<FlashMsg>>, dev |-> <<a>>, out |-> FlashLines(a),
          retval |-> TextLen(FlashLines(a))]

(***************************************************************************)
(* kb_wake_angle_show, kb_wake_angle_store                                 *)
(***************************************************************************)
MOTIONSENSE_CMD_KB_WAKE_ANGLE == 5
EC_MOTION_SENSE_NO_VALUE == -1
U16_MAX == 65535

\* KbMsg with ec->cmd_offset left out.
KbMsg_noOffset(data) ==
    Msg(2, EC_CMD_MOTION_SENSE_CMD, "sizeof(*param)", "sizeof(*resp)",
        [cmd |-> MOTIONSENSE_CMD_KB_WAKE_ANGLE, data |-> data])

KbMsg(data) ==
    Msg(2, EC_CMD_MOTION_SENSE_CMD + cmd_offset, "sizeof(*param)",
        "sizeof(*resp)",
        [cmd |-> MOTIONSENSE_CMD_KB_WAKE_ANGLE, data |-> data])

KbAnswers == FailAnswers \cup { Answer(0, 0, d) : d \in {0, 180} }

KbWakeAngleShow(ok, a) ==
    IF ~ok
    THEN [sent |-> <<>>, dev |-> <<>>, out |-> <<>>, retval |-> -ENOMEM]
    ELSE IF a.ret < 0
    THEN [sent |-> <<KbMsg(EC_MOTION_SENSE_NO_VALUE)>>, dev |-> <<a>>,
          out |-> <<>>, retval |-> a.ret]
    ELSE LET lines == << Line("%d\n", 1, <<>>, <<a.data>>, "") >>
         IN  [sent |-> <<KbMsg(EC_MOTION_SENSE_NO_VALUE)>>, dev |-> <<a>>,
              out |-> lines, retval |-> TextLen(lines)]

Digits == <<"0","1","2","3","4","5","6","7","8","9">>
IsDigit(c) == \E d \in 1..10 : Digits[d] = c
DigitVal(c) == (CHOOSE d \in 1..10 : Digits[d] = c) - 1

RECURSIVE DecVal(_, _)
DecVal(s, acc) ==
    IF Len(s) = 0 THEN acc ELSE DecVal(Tail(s), 10 * acc + DigitVal(Head(s)))

\* kstrtou16(buf, 0, &angle) on decimal text: the text up to the NUL, one
\* trailing newline dropped, must be digits only and the value must fit
\* 16 bits; anything else is refused as an invalid argument.
kstrtou16(b) ==
    LET s == SubSeq(b, 1, Len(b) - 1)
        t == IF Len(s) > 0 /\ s[Len(s)] = "\n"
             THEN SubSeq(s, 1, Len(s) - 1) ELSE s
    IN  IF Len(t) = 0 \/ \E k \in 1..Len(t) : ~IsDigit(t[k])
        THEN [ret |-> -EINVAL, val |-> 0]
        ELSE IF DecVal(t, 0) > U16_MAX
        THEN [ret |-> -EINVAL, val |-> 0]
        ELSE [ret |-> 0, val |-> DecVal(t, 0)]

AngleTexts ==
    { <<"1","8","0",NUL>>, <<"1","8","0","\n",NUL>>, <<"0",NUL>>,
      <<"6","5","5","3","5",NUL>>, <<"6","5","5","3","6",NUL>>,
      <<"9","9","9","9","9","9",NUL>>, <<"a","b","c",NUL>>,
      <<"1","2","a","\n",NUL>>, <<"-","1",NUL>>, <<"\n",NUL>>, <<NUL>> }

KbWakeAngleStore(b, ok, a) ==
    LET k == kstrtou16(b)
    IN  IF k.ret # 0
        THEN [sent |-> <<>>, dev |-> <<>>, retval |-> k.ret]
        ELSE IF ~ok
        THEN [sent |-> <<>>, dev |-> <<>>, retval |-> -ENOMEM]
        ELSE [sent |-> <<KbMsg(k.val)>>, dev |-> <<a>>,
              retval |-> IF a.ret < 0 THEN a.ret ELSE Count(b)]

(***************************************************************************)
(* usbpdmuxinfo_show                                                       *)
(***************************************************************************)
USB_PD_MUX_USB_ENABLED == 1
USB_PD_MUX_DP_ENABLED == 2
USB_PD_MUX_POLARITY_INVERTED == 4
USB_PD_MUX_HPD_IRQ == 8
USB_PD_MUX_HPD_LVL == 16
USB_PD_MUX_SAFE_MODE == 32
USB_PD_MUX_TBT_COMPAT_ENABLED == 64
USB_PD_MUX_USB4_ENABLED == 128

\* !!(flags & mask) for a one-bit mask.
Bit(flags, mask) == (flags \div mask) % 2

PortsMsg ==
    Msg(0, EC_CMD_USB_PD_PORTS, "0", "sizeof(resp_pd_ports)", <<>>)
MuxMsg(i) ==
    Msg(0, EC_CMD_USB_PD_MUX_INFO, "sizeof(req)", "sizeof(resp_mux)",
        [port |-> i])

\* The answer to the port count query carries num_ports, the answer to a
\* mux info query carries the flags byte.
PortsAnswers ==
    {Answer(-EIO, 0, 0)} \cup { Answer(0, 0, n) : n \in 0..MaxPorts }
MuxAnswers ==
    {Answer(-EIO, 0, 0)} \cup { Answer(0, 0, f) : f \in {0, 5, 255} }

PortLines(i, flags) ==
    << Line("Port %d:", 1, <<>>, <<i>>, ""),
       Line(" USB=%d", 1, <<>>, <<Bit(flags, USB_PD_MUX_USB_ENABLED)>>, ""),
       Line(" DP=%d", 1, <<>>, <<Bit(flags, USB_PD_MUX_DP_ENABLED)>>, ""),
       Line(" POLARITY=%s", 1, <<>>, <<>>,
            IF Bit(flags, USB_PD_MUX_POLARITY_INVERTED) # 0
            THEN "INVERTED" ELSE "NORMAL"),
       Line(" HPD_IRQ=%d", 1, <<>>, <<Bit(flags, USB_PD_MUX_HPD_IRQ)>>, ""),
       Line(" HPD_LVL=%d", 1, <<>>, <<Bit(flags, USB_PD_MUX_HPD_LVL)>>, ""),
       Line(" SAFE=%d", 1, <<>>, <<Bit(flags, USB_PD_MUX_SAFE_MODE)>>, ""),
       Line(" TBT=%d", 1, <<>>,
            <<Bit(flags, USB_PD_MUX_TBT_COMPAT_ENABLED)>>, ""),
       Line(" USB4=%d\n", 1, <<>>, <<Bit(flags, USB_PD_MUX_USB4_ENABLED)>>,
            "") >>

\* MuxStep with ret > 0 for ret >= 0.
MuxStep_strict(i, m) == IF m.ret > 0 THEN PortLines(i, m.data) ELSE <<>>

\* One pass of the for loop: port i (0-based) is answered by m.
MuxStep(i, m) == IF m.ret >= 0 THEN PortLines(i, m.data) ELSE <<>>

\* The for loop from port i on; mux[i + 1] answers port i.
RECURSIVE MuxLoop(_, _, _)
MuxLoop(i, num_ports, mux) ==
    IF i < num_ports
    THEN MuxStep(i, mux[i + 1]) \o MuxLoop(i + 1, num_ports, mux)
    ELSE <<>>

UsbpdmuxinfoShow(pa, mux) ==
    IF pa.ret < 0
    THEN [sent |-> <<PortsMsg>>, dev |-> <<pa>>, out |-> <<>>,
          retval |-> -EIO]
    ELSE LET lines == MuxLoop(0, pa.data, mux)
         IN  [sent |-> <<PortsMsg>> \o [k \in 1..pa.data |-> MuxMsg(k - 1)],
              dev |-> <<pa>> \o mux,
              out |-> lines,
              retval |-> IF TextLen(lines) # 0 THEN TextLen(lines) ELSE -EIO]

(***************************************************************************)
(* cros_ec_ctrl_visible                                                    *)
(***************************************************************************)
S_RW == 420     \* 0644, DEVICE_ATTR_RW
S_RO == 292     \* 0444, DEVICE_ATTR_RO

\* __ec_attrs with the mode each DEVICE_ATTR_ declares.
ec_attrs ==
    [kb_wake_angle |-> S_RW, reboot |-> S_RW, version |-> S_RO,
     flashinfo |-> S_RO, usbpdmuxinfo |-> S_RO, ap_mode_entry |-> S_RO]

\* cros_ec_ctrl_visible with ap_mode_entry left out of the name check.
cros_ec_ctrl_visible_noApCheck(a) ==
    IF a = "kb_wake_angle" /\ ~has_kb_wake_angle THEN 0
    ELSE IF a \in {"usbpdmuxinfo"} /\ ec_name # CROS_EC_DEV_NAME THEN 0
    ELSE ec_attrs[a]

cros_ec_ctrl_visible(a) ==
    IF a = "kb_wake_angle" /\ ~has_kb_wake_angle THEN 0
    ELSE IF a \in {"usbpdmuxinfo", "ap_mode_entry"}
            /\ ec_name # CROS_EC_DEV_NAME THEN 0
    ELSE ec_attrs[a]

Init ==
    /\ cmd_offset \in CmdOffsets
    /\ has_kb_wake_angle \in BOOLEAN
    /\ ec_name \in EcNames
    /\ op = "none"
    /\ buf = <<NUL>>
    /\ alloc_ok = TRUE
    /\ dev = <<>>
    /\ sent = <<>>
    /\ out = <<>>
    /\ retval = 0
    /\ attr = "none"

\* Common shape of a handler's effect: r carries sent, dev, out, retval.
Returns(name, b, ok, r) ==
    /\ op' = name
    /\ buf' = b
    /\ alloc_ok' = ok
    /\ dev' = r.dev
    /\ sent' = r.sent
    /\ out' = r.out
    /\ retval' = r.retval
    /\ attr' = "none"
    /\ UNCHANGED handle

reboot_store ==
    /\ op = "none"
    /\ \E b \in RebootTexts, ok \in BOOLEAN, a \in RebootAnswers :
         \E r \in {RebootStore(b, ok, a)} :
           Returns("reboot_store", b, ok,
                   [sent |-> r.sent, dev |-> r.dev, out |-> <<>>,
                    retval |-> r.retval])

version_show ==
    /\ op = "none"
    /\ \E ok \in BOOLEAN, a1 \in VerAnswers :
        \E a2 \in IF ok /\ a1.ret >= 0 THEN BuildAnswers ELSE {a1},
           a3 \in IF ok /\ a1.ret >= 0 THEN ChipAnswers ELSE {a1},
           a4 \in IF ok /\ a1.ret >= 0 THEN BoardAnswers ELSE {a1} :
          \E r \in {VersionShow(ok, <<a1, a2, a3, a4>>)} :
            Returns("version_show", <<NUL>>, ok, r)

reboot_show ==
    /\ op = "none"
    /\ Returns("reboot_show", <<NUL>>, TRUE,
               [sent |-> <<>>, dev |-> <<>>, out |-> RebootShowLines,
                retval |-> TextLen(RebootShowLines)])

flashinfo_show ==
    /\ op = "none"
    /\ \E ok \in BOOLEAN, a \in FlashAnswers :
         Returns("flashinfo_show", <<NUL>>, ok, FlashinfoShow(ok, a))

kb_wake_angle_show ==
    /\ op = "none"
    /\ cros_ec_ctrl_visible("kb_wake_angle") # 0
    /\ \E ok \in BOOLEAN, a \in KbAnswers :
         Returns("kb_wake_angle_show", <<NUL>>, ok, KbWakeAngleShow(ok, a))

kb_wake_angle_store ==
    /\ op = "none"
    /\ cros_ec_ctrl_visible("kb_wake_angle") # 0
    /\ \E b \in AngleTexts, ok \in BOOLEAN, a \in KbAnswers :
         \E r \in {KbWakeAngleStore(b, ok, a)} :
           Returns("kb_wake_angle_store", b, ok,
                   [sent |-> r.sent, dev |-> r.dev, out |-> <<>>,
                    retval |-> r.retval])

usbpdmuxinfo_show ==
    /\ op = "none"
    /\ cros_ec_ctrl_visible("usbpdmuxinfo") # 0
    /\ \E pa \in PortsAnswers :
         \E mux \in [1..(IF pa.ret < 0 THEN 0 ELSE pa.data) -> MuxAnswers] :
           \E r \in {UsbpdmuxinfoShow(pa, mux)} :
             Returns("usbpdmuxinfo_show", <<NUL>>, TRUE, r)

\* cros_ec_check_features answers ap_driven_altmode.
ap_mode_entry_show ==
    /\ op = "none"
    /\ cros_ec_ctrl_visible("ap_mode_entry") # 0
    /\ \E ap_driven_altmode \in BOOLEAN :
         LET lines == << Line("%s\n", 1, <<>>, <<>>,
                              IF ap_driven_altmode THEN "yes" ELSE "no") >>
         IN  Returns("ap_mode_entry_show", <<NUL>>, TRUE,
                     [sent |-> <<>>, dev |-> <<>>, out |-> lines,
                      retval |-> TextLen(lines)])

\* sysfs asks whether attribute a of the group is to be created, and with
\* which mode.
ctrl_visible ==
    /\ op = "none"
    /\ \E a \in DOMAIN ec_attrs :
         /\ op' = "cros_ec_ctrl_visible"
         /\ attr' = a
         /\ retval' = cros_ec_ctrl_visible(a)
         /\ UNCHANGED <<handle, buf, alloc_ok, dev, sent, out>>

\* The read or write returns to its caller: nothing of the call is kept,
\* every handler starts from the device handle alone.
sysfs_return ==
    /\ op # "none"
    /\ op' = "none"
    /\ buf' = <<NUL>>
    /\ alloc_ok' = TRUE
    /\ dev' = <<>>
    /\ sent' = <<>>
    /\ out' = <<>>
    /\ retval' = 0
    /\ attr' = "none"
    /\ UNCHANGED handle

Next ==
    \/ reboot_show
    \/ reboot_store
    \/ version_show
    \/ flashinfo_show
    \/ kb_wake_angle_show
    \/ kb_wake_angle_store
    \/ usbpdmuxinfo_show
    \/ ap_mode_entry_show
    \/ ctrl_visible
    \/ sysfs_return

Spec == Init /\ [][Next]_vars

(***************************************************************************)
(* Properties.  The reading of a written text that the properties use:    *)
(* its whitespace-delimited tokens, a token being a keyword when it       *)
(* equals the keyword, letter case ignored.                                *)
(***************************************************************************)
RECURSIVE TokensFrom(_, _, _)
TokensFrom(b, i, cur) ==
    IF i > Len(b) \/ b[i] = NUL
    THEN IF Len(cur) = 0 THEN <<>> ELSE <<cur>>
    ELSE IF isspace(b[i])
    THEN IF Len(cur) = 0 THEN TokensFrom(b, i + 1, <<>>)
         ELSE <<cur>> \o TokensFrom(b, i + 1, <<>>)
    ELSE TokensFrom(b, i + 1, Append(cur, b[i]))

Tokens(b) == TokensFrom(b, 1, <<>>)

IsKeyword(tok, i) ==
    /\ Len(tok) = Len(words[i].str)
    /\ \A k \in 1..Len(tok) : tolower(tok[k]) = words[i].str[k]

TypeWords == {i \in 1..Len(words) : words[i].flags = 0}
FlagWords == {i \in 1..Len(words) : words[i].flags # 0}

IsTypeToken(tok) == \E i \in TypeWords : IsKeyword(tok, i)
IsFlagToken(tok) == \E i \in FlagWords : IsKeyword(tok, i)
TypeCode(tok) == words[CHOOSE i \in TypeWords : IsKeyword(tok, i)].cmd

TypePositions(toks) == {k \in 1..Len(toks) : IsTypeToken(toks[k])}
LastTypeToken(toks) ==
    toks[CHOOSE k \in TypePositions(toks) :
            \A j \in TypePositions(toks) : j <= k]

\* The text made of the tokens of toks without the one at position i.
Without(toks, i) ==
    Join([k \in 1..(Len(toks) - 1) |->
             IF k < i THEN toks[k] ELSE toks[k + 1]], <<" ">>) \o <<NUL>>

\* C2: a reboot write with at least one reboot-type token issues exactly
\* one command; it carries the code of the last reboot-type token of the
\* text, and the at-shutdown flag exactly when an at-shutdown token occurs
\* in the text.  (The allocation of the message is taken to succeed.)
C2_LastTypeTokenWins ==
    (op = "reboot_store" /\ alloc_ok /\ TypePositions(Tokens(buf)) # {})
    => /\ Len(sent) = 1
       /\ sent[1].param.cmd = TypeCode(LastTypeToken(Tokens(buf)))
       /\ (sent[1].param.flags = EC_REBOOT_FLAG_ON_AP_SHUTDOWN)
            <=> (\E k \in 1..Len(Tokens(buf)) : IsFlagToken(Tokens(buf)[k]))
       /\ sent[1].param.flags \in {0, EC_REBOOT_FLAG_ON_AP_SHUTDOWN}

\* C3, as claimed: a reboot write whose text has two or more reboot-type
\* tokens fails and issues no command.
C3_TwoTypeTokensFail ==
    (op = "reboot_store" /\ Cardinality(TypePositions(Tokens(buf))) >= 2)
    => (sent = <<>> /\ retval < 0)

\* C3, amended: a reboot write whose text has two or more reboot-type
\* tokens is not refused: once the message is allocated it issues exactly
\* one command, and it fails only with the status of that exchange.
C3_TwoTypeTokensIssueOne ==
    (op = "reboot_store" /\ alloc_ok
        /\ Cardinality(TypePositions(Tokens(buf))) >= 2)
    => /\ Len(sent) = 1
       /\ sent[1].command = EC_CMD_REBOOT_EC + cmd_offset
       /\ IF dev[1].ret < 0 THEN retval = dev[1].ret
          ELSE retval = Len(buf) - 1

C3_Witness ==
    /\ op = "reboot_store"
    /\ Cardinality(TypePositions(Tokens(buf))) >= 2
    /\ Len(sent) = 1
    /\ retval = Len(buf) - 1

\* The texts that are an unsigned 16-bit integer.
ValidAngleTexts ==
    { <<"1","8","0",NUL>>, <<"1","8","0","\n",NUL>>, <<"0",NUL>>,
      <<"6","5","5","3","5",NUL>> }

\* C4: a kb_wake_angle write whose text is not an unsigned 16-bit integer,
\* and a reboot write whose text has no reboot-type token, return -EINVAL
\* and exchange nothing with the EC.  (The allocation of the message is
\* taken to succeed.)
C4_MalformedRejected ==
    /\ (op = "kb_wake_angle_store" /\ buf \notin ValidAngleTexts)
       => (retval = -EINVAL /\ sent = <<>>)
    /\ (op = "reboot_store" /\ alloc_ok /\ TypePositions(Tokens(buf)) = {})
       => (retval = -EINVAL /\ sent = <<>>)

\* C9: a token of a reboot write that equals none of the eight keywords
\* changes nothing: the command, the flag bits and the success of the
\* write are those of the text without that token.
C9_UnrecognizedIgnored ==
    (op = "reboot_store" /\ alloc_ok)
    => \A i \in 1..Len(Tokens(buf)) :
          (~IsTypeToken(Tokens(buf)[i]) /\ ~IsFlagToken(Tokens(buf)[i]))
          => LET q == ParseReboot(Without(Tokens(buf), i))
             IN  /\ (Len(sent) = 1) <=> (q.got_cmd # 0)
                 /\ (retval = -EINVAL) <=> (q.got_cmd = 0)
                 /\ Len(sent) = 1
                      => sent[1].param = [cmd |-> q.cmd, flags |-> q.flags]

(***************************************************************************)
(* version: what a read is expected to print.                              *)
(***************************************************************************)
\* The text of a field of a response: its bytes before the first
\* terminator, the last byte of the field never printed.
Printable(f) ==
    LET n == CHOOSE n \in 0..(Len(f) - 1) :
                /\ \A k \in 1..n : f[k] # 0
                /\ n = Len(f) - 1 \/ f[n + 1] = 0
    IN  SubSeq(f, 1, n)

Failed(k) == k <= Len(dev) /\ dev[k].ret < 0
FailedQueries == {k \in 1..4 : Failed(k)}

VersionBases ==
    <<EC_CMD_GET_VERSION, EC_CMD_GET_BUILD_INFO, EC_CMD_GET_CHIP_INFO,
      EC_CMD_GET_BOARD_VERSION>>

FourQueriesInOrder ==
    /\ Len(sent) = 4
    /\ \A k \in 1..4 : sent[k].command = VersionBases[k] + cmd_offset

\* The diagnostic line of a failed build-info, chip-info or board-version
\* query; get-version has none.
DiagnosticFmt(k) ==
    CASE k = 2 -> "Build info:    XFER / EC ERROR %d / %d\n"
      [] k = 3 -> "Chip info:     XFER / EC ERROR %d / %d\n"
      [] k = 4 -> "Board version: XFER / EC ERROR %d / %d\n"

DataFmts ==
    << <<"RO version:    %s\n", "RW version:    %s\n", "Firmware copy: %s\n">>,
       <<"Build info:    %s\n">>,
       <<"Chip vendor:   %s\n", "Chip name:     %s\n", "Chip revision: %s\n">>,
       <<"Board version: %d\n">> >>

ExpectedFmts(k) == IF Failed(k) THEN <<DiagnosticFmt(k)>> ELSE DataFmts[k]

OutFmts == [k \in 1..Len(out) |-> out[k].fmt]

\* A line that reports an exchange status and an EC result.
IsDiagnostic(l) == l.nconv = 2 /\ Len(l.num) = 2

\* C1, as claimed: whichever single query of a version read fails, all
\* four queries are issued in the fixed order, the failing one yields one
\* diagnostic line and the others their data lines.
C1_AnySingleFailure ==
    (op = "version_show" /\ alloc_ok /\ Cardinality(FailedQueries) = 1)
    => /\ FourQueriesInOrder
       /\ Cardinality({k \in 1..Len(out) : IsDiagnostic(out[k])}) = 1
       /\ \A j \in (1..4) \ FailedQueries :
            \A i \in 1..Len(DataFmts[j]) :
               \E k \in 1..Len(out) : out[k].fmt = DataFmts[j][i]

\* C1, amended: when the single failing query of a version read is build
\* info, chip info or board version, all four queries are issued in the
\* fixed order, the failing one yields its diagnostic line and the others
\* their data lines; when get-version fails, the read stops there: no
\* other query is issued, nothing is printed and the read returns the
\* status of that failure.
C1_LaterFailuresDoNotAbort ==
    (op = "version_show" /\ alloc_ok /\ Cardinality(FailedQueries) = 1)
    => IF Failed(1)
       THEN /\ Len(sent) = 1
            /\ sent[1].command = EC_CMD_GET_VERSION + cmd_offset
            /\ out = <<>>
            /\ retval = dev[1].ret
       ELSE /\ FourQueriesInOrder
            /\ OutFmts = DataFmts[1] \o ExpectedFmts(2) \o ExpectedFmts(3)
                           \o ExpectedFmts(4)
            /\ \A k \in 1..Len(out) :
                 IsDiagnostic(out[k])
                 => \E j \in FailedQueries :
                       out[k].num = <<dev[j].ret, dev[j].result>>
            /\ retval > 0

C1_Witness ==
    /\ op = "version_show"
    /\ FailedQueries = {3}
    /\ Len(sent) = 4
    /\ Len(out) = 6

\* C6: a version read whose build-info query fails while the other three
\* succeed prints the three version lines, one build-info diagnostic with
\* the exchange status and the EC result, the three chip lines and the
\* board line, in that order, each with the text of its field, and
\* returns the length of that text.
C6_BuildInfoFailure ==
    (op = "version_show" /\ alloc_ok /\ FailedQueries = {2})
    => /\ OutFmts = DataFmts[1] \o <<DiagnosticFmt(2)>> \o DataFmts[3]
                      \o DataFmts[4]
       /\ out[1].str = Printable(dev[1].data.version_string_ro)
       /\ out[2].str = Printable(dev[1].data.version_string_rw)
       /\ out[3].name \in {"unknown", "RO", "RW", "?"}
       /\ (out[3].name = "?") <=> (dev[1].data.current_image > 2)
       /\ out[4].num = <<dev[2].ret, dev[2].result>>
       /\ out[5].str = Printable(dev[3].data.vendor)
       /\ out[6].str = Printable(dev[3].data.name)
       /\ out[7].str = Printable(dev[3].data.revision)
       /\ out[8].num = <<dev[4].data>>
       /\ retval = TextLen(out)
       /\ retval >= 8 * 16

C6_Witness ==
    /\ op = "version_show"
    /\ FailedQueries = {2}
    /\ Len(out) = 8
    /\ dev[2].result # 0
    /\ retval > 0

\* The text s is shorter than the field f and is made of its first bytes.
WithinField(s, f) == Len(s) <= Len(f) - 1 /\ s = SubSeq(f, 1, Len(s))

\* C8: whatever bytes the EC returns to a version read, the text printed
\* for a fixed-size field (RO version, RW version, build info, chip
\* vendor, name, revision) is shorter than the field and consists of
\* bytes of that field only.
C8_FieldsTerminated ==
    (op = "version_show" /\ Len(dev) = 4)
    => /\ WithinField(out[1].str, dev[1].data.version_string_ro)
       /\ WithinField(out[2].str, dev[1].data.version_string_rw)
       /\ ~Failed(2) => WithinField(out[4].str, dev[2].data)
       /\ ~Failed(3) =>
            /\ WithinField(out[5].str, dev[3].data.vendor)
            /\ WithinField(out[6].str, dev[3].data.name)
            /\ WithinField(out[7].str, dev[3].data.revision)

\* Every text field came back without a terminator and was cut.
C8_Witness ==
    /\ op = "version_show"
    /\ Len(dev) = 4
    /\ FailedQueries = {}
    /\ \A k \in 1..FieldCap :
         /\ dev[1].data.version_string_ro[k] # 0
         /\ dev[1].data.version_string_rw[k] # 0
         /\ dev[3].data.vendor[k] # 0
         /\ dev[3].data.revision[k] # 0
    /\ \A k \in 1..HostParamSize : dev[2].data[k] # 0
    /\ Len(out[1].str) = FieldCap - 1
    /\ Len(out[4].str) = HostParamSize - 1
    /\ Len(out[7].str) = FieldCap - 1

(***************************************************************************)
(* usbpdmuxinfo                                                            *)
(***************************************************************************)
\* The ports a read printed, in the order printed.
RECURSIVE PortsOf(_)
PortsOf(lines) ==
    IF Len(lines) = 0 THEN <<>>
    ELSE IF Head(lines).fmt = "Port %d:"
    THEN <<Head(lines).num[1]>> \o PortsOf(Tail(lines))
    ELSE PortsOf(Tail(lines))

\* num_ports as reported, and the ports whose mux-info query failed.
NumPorts == dev[1].data
FailedPorts == {i \in 0..(NumPorts - 1) : dev[i + 2].ret < 0}

\* C5: a usbpdmuxinfo read fails when the EC reports 0 ports; when it
\* reports N > 0 ports and exactly one mux-info query fails, the read
\* prints N - 1 port lines, in ascending order of port, none for the
\* failed port.
C5_PortLines ==
    (op = "usbpdmuxinfo_show" /\ dev[1].ret >= 0)
    => /\ NumPorts = 0 => (retval < 0 /\ out = <<>>)
       /\ (NumPorts > 0 /\ Cardinality(FailedPorts) = 1)
          => LET ports == PortsOf(out)
             IN  /\ Len(ports) = NumPorts - 1
                 /\ Len(out) = 9 * (NumPorts - 1)
                 /\ \A k \in 1..Len(ports) : ports[k] \notin FailedPorts
                 /\ \A j, k \in 1..Len(ports) : j < k => ports[j] < ports[k]
                 /\ \A k \in 1..Len(ports) : ports[k] \in 0..(NumPorts - 1)
                 /\ \A k \in 1..Len(out) :
                      (out[k].fmt = " USB4=%d\n") <=> (k % 9 = 0)

C5_Witness ==
    /\ op = "usbpdmuxinfo_show"
    /\ dev[1].ret >= 0
    /\ NumPorts = 3
    /\ FailedPorts = {1}
    /\ PortsOf(out) = <<0, 2>>
    /\ retval > 0

(***************************************************************************)
(* cros_ec_ctrl_visible                                                    *)
(***************************************************************************)
\* C7: kb_wake_angle is not visible on a handle without the keyboard wake
\* angle capability; usbpdmuxinfo and ap_mode_entry are not visible on a
\* handle whose platform name is not the primary EC's; in every other
\* case the attribute is visible with the mode it declares.
C7_Visibility ==
    op = "cros_ec_ctrl_visible"
    => IF attr = "kb_wake_angle" /\ ~has_kb_wake_angle THEN retval = 0
       ELSE IF attr \in {"usbpdmuxinfo", "ap_mode_entry"}
               /\ ec_name # "cros_ec" THEN retval = 0
       ELSE /\ retval # 0
            /\ retval = IF attr \in {"reboot", "kb_wake_angle"}
                        THEN S_RW ELSE S_RO

C7_Witness ==
    /\ op = "cros_ec_ctrl_visible"
    /\ attr = "ap_mode_entry"
    /\ ec_name # "cros_ec"
    /\ has_kb_wake_angle
    /\ retval = 0

(***************************************************************************)
(* Command codes.                                                          *)
(***************************************************************************)
\* The base code of the k-th command a handler issues.
BaseCode(handler, k) ==
    CASE handler = "reboot_store" -> EC_CMD_REBOOT_EC
      [] handler = "version_show" -> VersionBases[k]
      [] handler = "flashinfo_show" -> EC_CMD_FLASH_INFO
      [] handler \in {"kb_wake_angle_show", "kb_wake_angle_store"} ->
            EC_CMD_MOTION_SENSE_CMD
      [] handler = "usbpdmuxinfo_show" ->
            IF k = 1 THEN EC_CMD_USB_PD_PORTS ELSE EC_CMD_USB_PD_MUX_INFO

\* C10, as claimed: every command a handler issues carries its base code
\* plus the command offset of the device handle.
C10_EveryCommandOffset ==
    \A k \in 1..Len(sent) :
        sent[k].command = BaseCode(op, k) + cmd_offset

\* C10, amended: the commands of reboot, version, flashinfo and
\* kb_wake_angle carry their base code plus the command offset of the
\* device handle; the port-count and mux-info queries of usbpdmuxinfo
\* carry their base code alone, whatever the offset.
C10_CommandCodes ==
    \A k \in 1..Len(sent) :
        sent[k].command =
            IF op = "usbpdmuxinfo_show" THEN BaseCode(op, k)
            ELSE BaseCode(op, k) + cmd_offset

C10_Witness ==
    /\ cmd_offset # 0
    /\ op = "kb_wake_angle_store"
    /\ Len(sent) = 1
    /\ sent[1].command = EC_CMD_MOTION_SENSE_CMD + cmd_offset
====
